---- MODULE Spec2Model ----
(***************************************************************************)
(* whitenoise-cli: the noise generator, the shared AudioSettings, the      *)
(* audio callback, the interactive control loop and main's shutdown.       *)
(*                                                                         *)
(* f32/f64 values are fixed-point integers in units of 1/Scale, so 0.05 is *)
(* 50 and 1.0 is 1000.  Products and quotients truncate toward zero.       *)
(***************************************************************************)
EXTENDS Integers, Sequences, FiniteSets, TLC

\* ------------------------------------------------------------ arithmetic

\* One unit of an f32 field (volume: f32 and friends) is 1/Scale.
Scale == 1000

Abs(a) == IF a < 0 THEN -a ELSE a

Div(a, b) == IF a >= 0 THEN a \div b ELSE -((-a) \div b)

Mul(a, b) == Div(a * b, Scale)

Fdiv(a, b) == Div(a * Scale, b)

Max(a, b) == IF a >= b THEN a ELSE b

Min(a, b) == IF a <= b THEN a ELSE b

\* std::f32::consts::PI
PI == 3142

\* Number of terms of the power series that stand for f32::cos and f32::sin.
TrigTerms == 6

RECURSIVE Series(_, _, _, _)
Series(x2, term, n, k) ==
    IF k = 0 THEN 0
    ELSE term + Series(x2, -Div(Mul(term, x2), (n + 1) * (n + 2)), n + 2, k - 1)

cos(x) == Series(Mul(x, x), Scale, 0, TrigTerms)

sin(x) == Series(Mul(x, x), x, 1, TrigTerms)

\* f32::tanh for x >= 0 by Lambert's continued fraction; an f32 tanh is
\* exactly 1.0 from about 9.0 on.
TanhDepth == 12

TanhSaturation == 9

RECURSIVE TanhFraction(_, _, _)
TanhFraction(x2, odd, k) ==
    IF k = 0 THEN odd
    ELSE odd + Fdiv(x2, TanhFraction(x2, odd + 2 * Scale, k - 1))

tanh(x) ==
    IF x < 0 THEN -(IF -x >= TanhSaturation * Scale THEN Scale
                    ELSE Fdiv(-x, TanhFraction(Mul(x, x), Scale, TanhDepth)))
    ELSE IF x >= TanhSaturation * Scale THEN Scale
    ELSE Fdiv(x, TanhFraction(Mul(x, x), Scale, TanhDepth))

\* ------------------------------------------------------- frequency bands

FREQUENCY_BANDS ==
    << [name |-> "Sub Bass",   min_freq |-> 20,    max_freq |-> 60],
       [name |-> "Bass",       min_freq |-> 60,    max_freq |-> 250],
       [name |-> "Low Mid",    min_freq |-> 250,   max_freq |-> 500],
       [name |-> "Mid",        min_freq |-> 500,   max_freq |-> 2000],
       [name |-> "Hi Mid",     min_freq |-> 2000,  max_freq |-> 4000],
       [name |-> "Presence",   min_freq |-> 4000,  max_freq |-> 6000],
       [name |-> "Brilliance", min_freq |-> 6000,  max_freq |-> 12000],
       [name |-> "Air",        min_freq |-> 12000, max_freq |-> 20000] >>

NumBands == Len(FREQUENCY_BANDS)

BandIndex == 1 .. NumBands

\* center_frequencies of NoiseGenerator::new, in Hz
center_frequencies == [i \in BandIndex |->
    (FREQUENCY_BANDS[i].min_freq + FREQUENCY_BANDS[i].max_freq) \div 2]

\* ---------------------------------------------------------- BiquadFilter

\* w = 2 * PI * frequency / sample_rate
Omega(frequency, sample_rate) == Div(2 * PI * frequency, sample_rate)

NewFilter(kind, frequency, b0, b1, b2, a0, a1, a2) ==
    [kind |-> kind, freq |-> frequency,
     b0 |-> Fdiv(b0, a0), b1 |-> Fdiv(b1, a0), b2 |-> Fdiv(b2, a0),
     a1 |-> Fdiv(a1, a0), a2 |-> Fdiv(a2, a0),
     x1 |-> 0, x2 |-> 0, y1 |-> 0, y2 |-> 0]

bandpass(frequency, q, sample_rate) ==
    LET w     == Omega(frequency, sample_rate)
        cos_w == cos(w)
        sin_w == sin(w)
        alpha == Fdiv(sin_w, 2 * q)
    IN  NewFilter("bandpass", frequency,
                  alpha, 0, -alpha, Scale + alpha, -2 * cos_w, Scale - alpha)

lowpass(frequency, sample_rate) ==
    LET w     == Omega(frequency, sample_rate)
        cos_w == cos(w)
        sin_w == sin(w)
        alpha == Div(sin_w, 2)
    IN  NewFilter("lowpass", frequency,
                  Div(Scale - cos_w, 2), Scale - cos_w, Div(Scale - cos_w, 2),
                  Scale + alpha, -2 * cos_w, Scale - alpha)

highpass(frequency, sample_rate) ==
    LET w     == Omega(frequency, sample_rate)
        cos_w == cos(w)
        sin_w == sin(w)
        alpha == Div(sin_w, 2)
    IN  NewFilter("highpass", frequency,
                  Div(Scale + cos_w, 2), -(Scale + cos_w), Div(Scale + cos_w, 2),
                  Scale + alpha, -2 * cos_w, Scale - alpha)

\* BiquadFilter::process: the output and the filter with its state shifted.
process(f, input) ==
    LET output == Mul(f.b0, input) + Mul(f.b1, f.x1) + Mul(f.b2, f.x2)
                  - Mul(f.a1, f.y1) - Mul(f.a2, f.y2)
    IN  [out    |-> output,
         filter |-> [f EXCEPT !.x2 = f.x1, !.x1 = input,
                              !.y2 = f.y1, !.y1 = output]]

\* Q of the bandpass bands ("let q = 1.5"), in units of 1/Scale
BandQ == 1500

\* The filter FrequencyBandGenerator::new builds for a band.
BandFilter(band, sample_rate) ==
    IF band.min_freq <= 60 THEN lowpass(band.max_freq, sample_rate)
    ELSE IF band.max_freq >= 16000 THEN highpass(band.min_freq, sample_rate)
    ELSE bandpass((band.min_freq + band.max_freq) \div 2, BandQ, sample_rate)

\* The rain EQ filter NoiseGenerator::new builds for a band.
RainFilter(band, sample_rate) ==
    IF band.min_freq <= 60 THEN lowpass(band.max_freq, sample_rate)
    ELSE IF band.max_freq >= 16000 THEN highpass(band.min_freq, sample_rate)
    ELSE bandpass((band.min_freq + band.max_freq) \div 2, BandQ, sample_rate)

\* ------------------------------------------------------ RainSamplePlayer

\* The embedded recording (assets/rain_loop.wav: 15 seconds, 44.1kHz, mono).
\* Its samples are not part of the sources; RainSampleAt stands for the
\* decoded Vec<f32>, every value in [-1, 1).
WavSampleRate == 44100

WavSeconds == 15

RainSampleAt(idx) == ((((idx + 1) % 2001) * 733) % 2001) - Scale

\* RainSamplePlayer::new
NewRainPlayer(len, source_sample_rate, target_sample_rate) ==
    [len |-> len,
     source_sample_rate |-> source_sample_rate,
     target_sample_rate |-> target_sample_rate,
     resample_position |-> 0,
     crossfade_samples |-> source_sample_rate * 2]

\* RainSamplePlayer::get_sample_interpolated; pos is in units of 1/Scale
get_sample_interpolated(p, pos) ==
    IF p.len = 0 THEN 0
    ELSE LET idx     == (pos \div Scale) % p.len
             frac    == pos - (pos \div Scale) * Scale
             sample1 == RainSampleAt(idx)
             sample2 == RainSampleAt((idx + 1) % p.len)
         IN  sample1 + Mul(sample2 - sample1, frac)

\* The sample RainSamplePlayer::generate_sample returns.
RainPlayerSample(p) ==
    LET fade_start  == p.len - p.crossfade_samples
        current_idx == p.resample_position \div Scale
    IN  IF current_idx >= fade_start
        THEN LET fade_progress == Fdiv(current_idx - fade_start, p.crossfade_samples)
                 fade_out      == cos(Div(Mul(PI, fade_progress), 2))
                 fade_in       == sin(Div(Mul(PI, fade_progress), 2))
                 end_sample    == get_sample_interpolated(p, p.resample_position)
                 begin_pos     == (current_idx - fade_start) * Scale
                                  + (p.resample_position - current_idx * Scale)
                 begin_sample  == get_sample_interpolated(p, begin_pos)
             IN  Mul(end_sample, fade_out) + Mul(begin_sample, fade_in)
        ELSE get_sample_interpolated(p, p.resample_position)

\* The sample indices one get_sample_interpolated(pos) call reads
IndicesRead(p, pos) ==
    LET idx == (pos \div Scale) % p.len
    IN  {idx, (idx + 1) % p.len}

\* The sample indices one generate_sample call reads
RainIndicesRead(p) ==
    LET fade_start  == p.len - p.crossfade_samples
        current_idx == p.resample_position \div Scale
        begin_pos   == (current_idx - fade_start) * Scale
                       + (p.resample_position - current_idx * Scale)
    IN  IF current_idx >= fade_start
        THEN IndicesRead(p, p.resample_position) \cup IndicesRead(p, begin_pos)
        ELSE IndicesRead(p, p.resample_position)

\* The loop jumping back to the start of the recording, by len
RainPlayerAdvanceToStart(p) ==
    LET ratio      == Fdiv(p.source_sample_rate, p.target_sample_rate)
        advanced   == p.resample_position + ratio
    IN  IF advanced >= p.len * Scale
        THEN advanced - p.len * Scale
        ELSE advanced

\* The position RainSamplePlayer::generate_sample leaves behind.
RainPlayerAdvance(p) ==
    LET fade_start == p.len - p.crossfade_samples
        ratio      == Fdiv(p.source_sample_rate, p.target_sample_rate)
        advanced   == p.resample_position + ratio
    IN  IF advanced >= p.len * Scale
        THEN advanced - fade_start * Scale
        ELSE advanced

\* RainSamplePlayer::generate_sample
RainPlayerGenerate(p) ==
    IF p.len = 0 THEN [out |-> 0, player |-> p]
    ELSE [out    |-> RainPlayerSample(p),
          player |-> [p EXCEPT !.resample_position = RainPlayerAdvance(p)]]

\* ------------------------------------------------ FrequencyBandGenerator

\* SmallRng stand-in: a 16-bit linear congruential generator.
RngModulus == 65536

RngMultiplier == 25173

RngIncrement == 13849

RngNext(state) == (state * RngMultiplier + RngIncrement) % RngModulus

\* rng.gen::<f32>(): uniform in [0, 1)
RngF32(state) == Div(state * Scale, RngModulus)

\* The gain below which a band is skipped ("gain <= 0.001")
GainFloor == 1

\* Fletcher-Munson compensation, keyed by the center frequency in Hz
PerceptualGain(perceptual_normalization, center_freq) ==
    IF perceptual_normalization
    THEN IF center_freq < 100 THEN 2800
         ELSE IF center_freq < 500 THEN 2000
         ELSE IF center_freq < 1000 THEN 1300
         ELSE IF center_freq < 4000 THEN 1000
         ELSE IF center_freq < 6000 THEN 800
         ELSE IF center_freq < 10000 THEN 1400
         ELSE 2200
    ELSE Scale

\* Headroom factor of a band's contribution ("* 0.8")
BandHeadroom == 800

\* FrequencyBandGenerator::new
NewBandGenerator(band, sample_rate, seed) ==
    [rng |-> seed, filter |-> BandFilter(band, sample_rate)]

\* FrequencyBandGenerator::generate_sample without its "gain <= 0.001" return
BandGenerateNoFloor(g, gain, center_freq, perceptual_normalization) ==
    LET rng        == RngNext(g.rng)
        base_audio == (RngF32(rng) - Scale \div 2) * 2
        filtered   == process(g.filter, base_audio)
        perceptual_gain == PerceptualGain(perceptual_normalization, center_freq)
    IN  [out |-> Mul(Mul(Mul(filtered.out, gain), perceptual_gain), BandHeadroom),
         gen |-> [rng |-> rng, filter |-> filtered.filter]]

\* FrequencyBandGenerator::generate_sample
BandGenerate(g, gain, center_freq, perceptual_normalization) ==
    IF gain <= GainFloor THEN [out |-> 0, gen |-> g]
    ELSE LET rng        == RngNext(g.rng)
             base_audio == (RngF32(rng) - Scale \div 2) * 2
             filtered   == process(g.filter, base_audio)
             perceptual_gain == PerceptualGain(perceptual_normalization, center_freq)
         IN  [out |-> Mul(Mul(Mul(filtered.out, gain), perceptual_gain), BandHeadroom),
              gen |-> [rng |-> rng, filter |-> filtered.filter]]

\* -------------------------------------------------------- NoiseGenerator

RECURSIVE SumTo(_, _)
SumTo(seq, n) == IF n = 0 THEN 0 ELSE seq[n] + SumTo(seq, n - 1)

Sum(seq) == SumTo(seq, Len(seq))

\* NoiseGenerator::new; seeds are what SmallRng::from_entropy() drew
NewNoiseGenerator(sample_rate, seeds) ==
    [bands        |-> [i \in BandIndex |->
                          NewBandGenerator(FREQUENCY_BANDS[i], sample_rate, seeds[i])],
     rain_player  |-> NewRainPlayer(WavSampleRate * WavSeconds, WavSampleRate, sample_rate),
     rain_filters |-> [i \in BandIndex |-> RainFilter(FREQUENCY_BANDS[i], sample_rate)]]

\* The rain EQ loop without its "gain <= 0.001" test
RainBandContributionNoFloor(filtered, gain, center_freq, perceptual) ==
    Mul(Mul(Mul(filtered, gain), PerceptualGain(perceptual, center_freq)), BandHeadroom)

\* One band of the rain EQ loop: what it adds to the sum.
RainBandContribution(filtered, gain, center_freq, perceptual) ==
    IF gain <= GainFloor THEN 0
    ELSE Mul(Mul(Mul(filtered, gain), PerceptualGain(perceptual, center_freq)),
             BandHeadroom)

\* SoundStyle::Rain arm of generate_sample
RainMix(gen, perceptual, frequency_bands) ==
    LET rain     == RainPlayerGenerate(gen.rain_player)
        filtered == [i \in BandIndex |-> process(gen.rain_filters[i], rain.out)]
    IN  [contrib |-> [i \in BandIndex |->
                        RainBandContribution(filtered[i].out, frequency_bands[i],
                                             center_frequencies[i], perceptual)],
         gen     |-> [gen EXCEPT !.rain_player  = rain.player,
                                 !.rain_filters = [i \in BandIndex |-> filtered[i].filter]]]

\* SoundStyle::Vanilla arm of generate_sample
VanillaMix(gen, perceptual, frequency_bands) ==
    LET made == [i \in BandIndex |->
                    BandGenerate(gen.bands[i], frequency_bands[i],
                                 center_frequencies[i], perceptual)]
    IN  [contrib |-> [i \in BandIndex |-> made[i].out],
         gen     |-> [gen EXCEPT !.bands = [i \in BandIndex |-> made[i].gen]]]

\* Threshold and range of the soft clipping (0.95 and 0.05)
ClipThreshold == 950

ClipRange == 50

\* The soft clipping with a range of 0.5 in place of 0.05
SoftLimitWideRange(final_sample) ==
    IF final_sample > ClipThreshold
    THEN ClipThreshold + Mul(10 * ClipRange, tanh(final_sample - ClipThreshold))
    ELSE IF final_sample < -ClipThreshold
    THEN -ClipThreshold + Mul(10 * ClipRange, tanh(final_sample + ClipThreshold))
    ELSE final_sample

\* "Soft clipping to prevent harsh clipping"
SoftLimit(final_sample) ==
    IF final_sample > ClipThreshold
    THEN ClipThreshold + Mul(ClipRange, tanh(final_sample - ClipThreshold))
    ELSE IF final_sample < -ClipThreshold
    THEN -ClipThreshold + Mul(ClipRange, tanh(final_sample + ClipThreshold))
    ELSE final_sample

\* generate_sample after the lock is dropped: the match, the master volume
\* and the soft limiting.  snap holds the locals copied under the lock.
Synthesize(gen, snap) ==
    LET mix == IF snap.sound_style = "Rain"
               THEN RainMix(gen, snap.perceptual, snap.frequency_bands)
               ELSE VanillaMix(gen, snap.perceptual, snap.frequency_bands)
        final_sample == Mul(Sum(mix.contrib), snap.volume)
    IN  [out     |-> SoftLimit(final_sample),
         pre     |-> final_sample,
         contrib |-> mix.contrib,
         gen     |-> mix.gen]

\* --------------------------------------------------------- AudioSettings

\* SoundStyle::next
next(style) == IF style = "Vanilla" THEN "Rain" ELSE "Vanilla"

\* AudioSettings::default
DefaultSettings ==
    [volume |-> 0,
     frequency_bands |-> [i \in BandIndex |-> 500],
     perceptual_normalization |-> FALSE,
     sound_style |-> "Vanilla"]

\* Contents of settings.toml that deserialize to an AudioSettings: a saved
\* session, a saved rain session, and a hand-edited file with out-of-range
\* numbers.
PersistedSettings ==
    { [volume |-> 800,
       frequency_bands |-> [i \in BandIndex |-> 500],
       perceptual_normalization |-> FALSE,
       sound_style |-> "Vanilla"],
      [volume |-> 1000,
       frequency_bands |-> [i \in BandIndex |-> IF i = 4 THEN 0 ELSE 1000],
       perceptual_normalization |-> TRUE,
       sound_style |-> "Rain"],
      [volume |-> 7500,
       frequency_bands |-> [i \in BandIndex |-> IF i = 5 THEN -500 ELSE 100000],
       perceptual_normalization |-> TRUE,
       sound_style |-> "Vanilla"] }

\* What fs::read_to_string and toml::from_str can meet at the config path.
ConfigFiles ==
    { [kind |-> "absent"], [kind |-> "malformed"] }
    \cup { [kind |-> "toml", settings |-> s] : s \in PersistedSettings }

\* load_settings without "settings.volume = 0.0"
load_settings_keeping_volume(file) ==
    IF file.kind = "toml" THEN file.settings ELSE DefaultSettings

load_settings(file) ==
    IF file.kind = "toml"
    THEN [file.settings EXCEPT !.volume = 0]
    ELSE DefaultSettings

\* save_settings: the file it leaves at the config path
save_settings(final_settings) == [kind |-> "toml", settings |-> final_settings]

\* The slider step of the Left and Right keys (0.05)
SliderStep == 50

\* KeyCode::Left arm of handle_key
KeyLeft(s, slider) ==
    IF slider = 0
    THEN [s EXCEPT !.volume = Max(s.volume - SliderStep, 0)]
    ELSE [s EXCEPT !.frequency_bands[slider] =
                       Max(s.frequency_bands[slider] - SliderStep, 0)]

\* KeyCode::Right arm of handle_key
KeyRight(s, slider) ==
    IF slider = 0
    THEN [s EXCEPT !.volume = Min(s.volume + SliderStep, Scale)]
    ELSE [s EXCEPT !.frequency_bands[slider] =
                       Min(s.frequency_bands[slider] + SliderStep, Scale)]

\* ------------------------------------------------------------ the state

\* Bounds of the exploration
DataLen == 2

MaxCallbacks == 2

MaxKeys == 2

MaxEntropy == 1

\* Sample rates the output device may have negotiated (config.sample_rate)
SampleRates == {44100, 48000}

\* Channel counts the device's default output configuration may carry
\* (config.channels); data holds frames * channels interleaved slots.
ChannelCounts == {1, 2}

\* Seeds SmallRng::from_entropy() hands to the eight bands
EntropySeeds(e) == [i \in BandIndex |-> (e * 40503 + i * 9973) % RngModulus]

VARIABLES
    config_file,      \* what lies at get_config_path()
    settings,         \* Arc<Mutex<AudioSettings>>: the guarded value
    settings_lock,    \* who holds that mutex: "none", "audio", "ui", "main"
    generator,        \* Arc<Mutex<NoiseGenerator>>: the guarded value
    generator_lock,   \* who holds that mutex: "none", "audio"
    running,          \* Arc<AtomicBool>
    current_slider,   \* InteractiveUI::current_slider
    m_pc,             \* where the main thread stands
    keys,             \* key events read so far
    a_pc,             \* where the audio callback stands
    callbacks,        \* callback invocations that have returned
    data,             \* the slots of the output buffer written by this callback
    snapshot,         \* generate_sample's locals copied under the lock
    seen,             \* the AudioSettings value those copies were taken from
    lock_count,       \* settings.lock() calls of the audio thread in this callback
    block_log,        \* per written slot of this callback: what generate_sample saw and made
    volume_raised     \* a Right key has raised the volume above 0

vars == << config_file, settings, settings_lock, generator, generator_lock, running,
           current_slider, m_pc, keys, a_pc, callbacks, data, snapshot, seen, lock_count,
           block_log, volume_raised >>

audio_vars == << generator, generator_lock, a_pc, callbacks, data, snapshot, seen,
                 lock_count, block_log >>

main_vars == << config_file, current_slider, m_pc, keys, volume_raised >>

NoSnapshot == [volume |-> 0, frequency_bands |-> [i \in BandIndex |-> 0],
               perceptual |-> FALSE, sound_style |-> "Vanilla"]

Silence == [k \in 1 .. DataLen |-> 0]

\* main up to stream.play(): settings loaded, flag set, generator built.
Init ==
    /\ config_file \in ConfigFiles
    /\ settings = load_settings(config_file)
    /\ settings_lock = "none"
    /\ \E sample_rate \in SampleRates, e \in 0 .. MaxEntropy :
           generator = NewNoiseGenerator(sample_rate, EntropySeeds(e))
    /\ generator_lock = "none"
    /\ running = TRUE
    /\ current_slider = 0
    /\ m_pc \in {"wait", "draw"}
    /\ keys = 0
    /\ a_pc = "idle"
    /\ callbacks = 0
    /\ data = << >>
    /\ snapshot = NoSnapshot
    /\ seen = DefaultSettings
    /\ lock_count = 0
    /\ block_log = << >>
    /\ volume_raised = FALSE

\* -------------------------------------------------- the audio callback

\* The stream lives until main returns.
StreamAlive == m_pc # "exit"

\* A callback that does not look at the flag
StopRequestedIgnored == FALSE

\* "!running.load(Ordering::Relaxed)" at the head of the callback
StopRequested == ~running

\* "if !running.load(..) { fill 0.0; return }"
CallbackStopped ==
    /\ a_pc = "idle" /\ StreamAlive /\ callbacks < MaxCallbacks
    /\ StopRequested
    /\ data' = Silence
    /\ block_log' = << >>
    /\ lock_count' = 0
    /\ callbacks' = callbacks + 1
    /\ UNCHANGED << generator, generator_lock, a_pc, snapshot, seen >>
    /\ UNCHANGED << settings, settings_lock, running >>
    /\ UNCHANGED main_vars

\* "if let Ok(mut generator_guard) = generator.lock()" with the flag still set
CallbackBegin ==
    /\ a_pc = "idle" /\ StreamAlive /\ callbacks < MaxCallbacks
    /\ ~StopRequested
    /\ generator_lock = "none"
    /\ generator_lock' = "audio"
    /\ a_pc' = "tick_lock"
    /\ data' = << >>
    /\ block_log' = << >>
    /\ lock_count' = 0
    /\ UNCHANGED << generator, callbacks, snapshot, seen >>
    /\ UNCHANGED << settings, settings_lock, running >>
    /\ UNCHANGED main_vars

\* The slot is written; the loop goes on or the callback returns.
SlotWritten(sample, entry) ==
    /\ data' = Append(data, sample)
    /\ block_log' = Append(block_log, entry)
    /\ IF Len(data) + 1 = DataLen
       THEN /\ a_pc' = "idle"
            /\ generator_lock' = "none"
            /\ callbacks' = callbacks + 1
       ELSE /\ a_pc' = "tick_lock"
            /\ UNCHANGED << generator_lock, callbacks >>

\* "let settings = self.settings.lock().unwrap();"
TickLock ==
    /\ a_pc = "tick_lock"
    /\ settings_lock = "none"
    /\ settings_lock' = "audio"
    /\ lock_count' = lock_count + 1
    /\ a_pc' = "tick_read"
    /\ UNCHANGED << generator, generator_lock, callbacks, data, snapshot, seen, block_log >>
    /\ UNCHANGED << settings, running >>
    /\ UNCHANGED main_vars

\* generate_sample without its fast path
VolumeIsZeroNever(s) == FALSE

\* "settings.volume == 0.0"
VolumeIsZero(s) == s.volume = 0

\* generate_sample without the drop: the guard lives to the end of the function
KeepGuard == settings_lock' = settings_lock

\* "drop(settings); // Release lock before generating audio"
DropGuard == settings_lock' = "none"

\* The synthesis reading the shared settings where it should read its locals
SynthInputLive ==
    [sound_style     |-> settings.sound_style,
     perceptual      |-> settings.perceptual_normalization,
     volume          |-> settings.volume,
     frequency_bands |-> settings.frequency_bands]

\* The locals the synthesis reads: sound_style, perceptual, volume and
\* frequency_bands, copied before the drop.
SynthInput == snapshot

\* "if settings.volume == 0.0 { return 0.0; }": the guard drops at the return
TickSilent ==
    /\ a_pc = "tick_read"
    /\ VolumeIsZero(settings)
    /\ settings_lock' = "none"
    /\ SlotWritten(0, [seen |-> settings, used |-> NoSnapshot, synthesized |-> FALSE,
                       pre |-> 0, out |-> 0, contrib |-> [i \in BandIndex |-> 0]])
    /\ UNCHANGED << generator, snapshot, seen, lock_count >>
    /\ UNCHANGED << settings, running >>
    /\ UNCHANGED main_vars

\* The four copies and "drop(settings)"
TickSnapshot ==
    /\ a_pc = "tick_read"
    /\ ~VolumeIsZero(settings)
    /\ snapshot' = [sound_style     |-> settings.sound_style,
                    perceptual      |-> settings.perceptual_normalization,
                    volume          |-> settings.volume,
                    frequency_bands |-> settings.frequency_bands]
    /\ seen' = settings
    /\ DropGuard
    /\ a_pc' = "tick_synth"
    /\ UNCHANGED << generator, generator_lock, callbacks, data, lock_count, block_log >>
    /\ UNCHANGED << settings, running >>
    /\ UNCHANGED main_vars

\* The match on sound_style, the master volume and the soft clipping; the
\* result goes into the slot.  A guard still alive drops at the return.
TickSynth ==
    /\ a_pc = "tick_synth"
    /\ LET made == Synthesize(generator, SynthInput)
       IN  /\ generator' = made.gen
           /\ SlotWritten(made.out,
                          [seen |-> seen, used |-> SynthInput, synthesized |-> TRUE,
                           pre |-> made.pre, out |-> made.out, contrib |-> made.contrib])
    /\ settings_lock' = IF settings_lock = "audio" THEN "none" ELSE settings_lock
    /\ snapshot' = NoSnapshot
    /\ seen' = DefaultSettings
    /\ UNCHANGED lock_count
    /\ UNCHANGED << settings, running >>
    /\ UNCHANGED main_vars

\* ------------------------------------------ the main thread and the keys

\* draw_ui: "let settings = self.settings.lock().unwrap();" and what follows
\* it runs with the guard alive until the function returns.
DrawUiLock ==
    /\ m_pc = "draw"
    /\ settings_lock = "none"
    /\ settings_lock' = "ui"
    /\ m_pc' = "drawing"
    /\ UNCHANGED << config_file, current_slider, keys, volume_raised >>
    /\ UNCHANGED << settings, running >>
    /\ UNCHANGED audio_vars

\* draw_ui leaking its guard (mem::forget): it returns with the mutex locked
DrawUiDoneLeakingGuard ==
    /\ m_pc = "drawing"
    /\ settings_lock' = settings_lock
    /\ m_pc' = "poll"
    /\ UNCHANGED << config_file, current_slider, keys, volume_raised >>
    /\ UNCHANGED << settings, running >>
    /\ UNCHANGED audio_vars

\* draw_ui returns after stdout.flush(): the guard drops.
DrawUiDone ==
    /\ m_pc = "drawing"
    /\ settings_lock' = "none"
    /\ m_pc' = "poll"
    /\ UNCHANGED << config_file, current_slider, keys, volume_raised >>
    /\ UNCHANGED << settings, running >>
    /\ UNCHANGED audio_vars

\* event::poll times out, or the event is no key event
PollTimeout ==
    /\ m_pc = "poll"
    /\ m_pc' = "check"
    /\ UNCHANGED << config_file, current_slider, keys, volume_raised >>
    /\ UNCHANGED << settings, settings_lock, running >>
    /\ UNCHANGED audio_vars

\* A key event is read and handle_key returns Ok(false).
KeyHandled ==
    /\ keys' = keys + 1
    /\ m_pc' = "check"
    /\ UNCHANGED << config_file, running >>
    /\ UNCHANGED audio_vars

KeyRead == m_pc = "poll" /\ keys < MaxKeys

PressUp ==
    /\ KeyRead
    /\ current_slider' = IF current_slider > 0 THEN current_slider - 1 ELSE current_slider
    /\ KeyHandled
    /\ UNCHANGED << settings, settings_lock, volume_raised >>

PressDown ==
    /\ KeyRead
    /\ current_slider' = IF current_slider < 8 THEN current_slider + 1 ELSE current_slider
    /\ KeyHandled
    /\ UNCHANGED << settings, settings_lock, volume_raised >>

\* The arms that lock: the guard is taken, one field is set, the guard drops.
PressLeft ==
    /\ KeyRead
    /\ settings_lock = "none"
    /\ settings' = KeyLeft(settings, current_slider)
    /\ KeyHandled
    /\ UNCHANGED << settings_lock, current_slider, volume_raised >>

PressRight ==
    /\ KeyRead
    /\ settings_lock = "none"
    /\ settings' = KeyRight(settings, current_slider)
    /\ volume_raised' = (volume_raised \/ settings'.volume > settings.volume)
    /\ KeyHandled
    /\ UNCHANGED << settings_lock, current_slider >>

PressN ==
    /\ KeyRead
    /\ settings_lock = "none"
    /\ settings' = [settings EXCEPT
                       !.perceptual_normalization = ~settings.perceptual_normalization]
    /\ KeyHandled
    /\ UNCHANGED << settings_lock, current_slider, volume_raised >>

PressS ==
    /\ KeyRead
    /\ settings_lock = "none"
    /\ settings' = [settings EXCEPT !.sound_style = next(settings.sound_style)]
    /\ KeyHandled
    /\ UNCHANGED << settings_lock, current_slider, volume_raised >>

\* Any other key: "_ => {}"
PressOther ==
    /\ KeyRead
    /\ KeyHandled
    /\ UNCHANGED << settings, settings_lock, current_slider, volume_raised >>

\* Leaving the control loop by a key: handle_key returns Ok(true), or the
\* Ctrl+C test matches, and run_loop breaks.  Nothing stores to the flag.
LeaveLoopByKey ==
    /\ m_pc' = "save"
    /\ keys' = keys + 1
    /\ UNCHANGED running

PressQuit ==
    /\ KeyRead
    /\ LeaveLoopByKey
    /\ UNCHANGED << config_file, current_slider, volume_raised >>
    /\ UNCHANGED << settings, settings_lock >>
    /\ UNCHANGED audio_vars

\* Ctrl+C read as a key event in raw mode: run_loop breaks
PressCtrlC ==
    /\ KeyRead
    /\ LeaveLoopByKey
    /\ UNCHANGED << config_file, current_slider, volume_raised >>
    /\ UNCHANGED << settings, settings_lock >>
    /\ UNCHANGED audio_vars

\* "if !self.running.load(..) { break; }"
LoopCheck ==
    /\ m_pc = "check"
    /\ m_pc' = IF running THEN "draw" ELSE "save"
    /\ UNCHANGED << config_file, current_slider, keys, volume_raised >>
    /\ UNCHANGED << settings, settings_lock, running >>
    /\ UNCHANGED audio_vars

\* --non-interactive: "while running.load(..) { sleep }" is left
WaitLoopExit ==
    /\ m_pc = "wait"
    /\ ~running
    /\ m_pc' = "save"
    /\ UNCHANGED << config_file, current_slider, keys, volume_raised >>
    /\ UNCHANGED << settings, settings_lock, running >>
    /\ UNCHANGED audio_vars

\* "settings.lock().unwrap().clone()", save_settings, and main returns:
\* the stream is dropped.
SaveAndExit ==
    /\ m_pc = "save"
    /\ settings_lock = "none"
    /\ config_file' = save_settings(settings)
    /\ m_pc' = "exit"
    /\ UNCHANGED << current_slider, keys, volume_raised >>
    /\ UNCHANGED << settings, settings_lock, running >>
    /\ UNCHANGED audio_vars

\* The ctrlc handler: running.store(false)
InterruptSignal ==
    /\ m_pc # "exit"
    /\ running
    /\ running' = FALSE
    /\ UNCHANGED << settings, settings_lock >>
    /\ UNCHANGED main_vars
    /\ UNCHANGED audio_vars

Next ==
    \/ CallbackStopped
    \/ CallbackBegin
    \/ TickLock
    \/ TickSilent
    \/ TickSnapshot
    \/ TickSynth
    \/ DrawUiLock
    \/ DrawUiDone
    \/ PollTimeout
    \/ PressUp
    \/ PressDown
    \/ PressLeft
    \/ PressRight
    \/ PressN
    \/ PressS
    \/ PressOther
    \/ PressQuit
    \/ PressCtrlC
    \/ LoopCheck
    \/ WaitLoopExit
    \/ SaveAndExit
    \/ InterruptSignal

Spec == Init /\ [][Next]_vars

\* The scheduling the lock protocol relies on.  A thread that holds the
\* settings mutex goes on to release it: generate_sample reaches its return or
\* its drop, draw_ui reaches its return (weak fairness).  A thread blocked in
\* Mutex::lock() is woken when the mutex is released and gets it at one of the
\* moments it is free: the control loop sleeps in event::poll after every
\* draw_ui, and the audio thread is outside generate_sample's first lines for
\* most of a sample (strong fairness of the three acquisitions).  Nothing is
\* assumed of the synthesis, of the keys, or of the signal.
FairSpec ==
    /\ Spec
    /\ WF_vars(TickSilent) /\ WF_vars(TickSnapshot) /\ WF_vars(DrawUiDone)
    /\ SF_vars(TickLock) /\ SF_vars(DrawUiLock) /\ SF_vars(SaveAndExit)

\* ------------------------------------- RainSamplePlayer on its own
\*
\* RainSamplePlayer::generate_sample called over and over on players built
\* from short recordings, so that the loop point is passed many times.  The
\* recordings are longer than their two-second crossfade (a shorter one makes
\* "len - self.crossfade_samples" underflow).  Only the player is called; the
\* bands and the rain filters around it stay as constructed.

\* Calls of generate_sample in one run
MaxRainTicks == 10

\* spec.sample_rate of the recording, in Hz
RainWavRates == {1, 2}

\* Samples a recording has beyond its crossfade
RainWavExtra == 1 .. 4

\* Sample rates of the output, in Hz
RainTargetRates == {1, 2, 3}

RainInit ==
    /\ \E rate \in RainWavRates, extra \in RainWavExtra, target \in RainTargetRates :
           generator = [NewNoiseGenerator(WavSampleRate, EntropySeeds(0)) EXCEPT
                            !.rain_player = NewRainPlayer(2 * rate + extra, rate, target)]
    /\ config_file = [kind |-> "absent"]
    /\ settings = DefaultSettings
    /\ settings_lock = "none"
    /\ generator_lock = "none"
    /\ running = TRUE
    /\ current_slider = 0
    /\ m_pc = "wait"
    /\ keys = 0
    /\ a_pc = "idle"
    /\ callbacks = 0
    /\ data = << >>
    /\ snapshot = NoSnapshot
    /\ seen = DefaultSettings
    /\ lock_count = 0
    /\ block_log = << >>
    /\ volume_raised = FALSE

\* self.rain_player.generate_sample(); data collects what it returned
RainTick ==
    /\ Len(data) < MaxRainTicks
    /\ LET made == RainPlayerGenerate(generator.rain_player)
       IN  /\ generator' = [generator EXCEPT !.rain_player = made.player]
           /\ data' = Append(data, made.out)
    /\ UNCHANGED << config_file, settings, settings_lock, generator_lock, running,
                    current_slider, m_pc, keys, a_pc, callbacks, snapshot, seen,
                    lock_count, block_log, volume_raised >>

RainNext == RainTick

RainSpec == RainInit /\ [][RainNext]_vars

\* ------------------------------------------------------------ the claims

Entries == 1 .. Len(block_log)

\* C1: whatever the configuration file holds, the store starts with volume 0,
\* and until a Right key raises the volume it stays 0 and no slot receives a
\* nonzero sample.
C1_StartsSilent ==
    ~volume_raised =>
        /\ settings.volume = 0
        /\ \A k \in 1 .. Len(data) : data[k] = 0

\* C1 witness: the file holds a nonzero volume, samples have been produced,
\* and nothing has raised the volume yet.
C1_Witness ==
    /\ config_file.kind = "toml" /\ config_file.settings.volume > 0
    /\ m_pc # "exit"
    /\ ~volume_raised
    /\ Len(block_log) > 0

Sign(x) == IF x < 0 THEN -1 ELSE 1

AudioCanStep == ENABLED (TickLock \/ TickSilent \/ TickSnapshot \/ TickSynth)

\* C3: when the audio thread cannot acquire the settings lock, the callback
\* does not wait for it: it goes on (writing silence) and returns.
C3_LockFailureIsSilence ==
    (a_pc = "tick_lock" /\ settings_lock # "none") => AudioCanStep

InUnitRange(x) == 0 <= x /\ x <= Scale

\* C4: in every reachable state the volume and each of the 8 band gains of
\* the shared settings are within [0, 1].
C4_GainsInRange ==
    /\ InUnitRange(settings.volume)
    /\ \A i \in BandIndex : InUnitRange(settings.frequency_bands[i])

\* The bands whose center frequency lies in [500, 2000) Hz
MidBands == { i \in BandIndex : 500 <= center_frequencies[i] /\ center_frequencies[i] < 2000 }

C6_OncePerBlock ==
    /\ lock_count <= 1
    /\ \A j, k \in Entries : block_log[j].seen = block_log[k].seen

\* The locals generate_sample copies from an AudioSettings value
LocalsOf(s) ==
    [sound_style     |-> s.sound_style,
     perceptual      |-> s.perceptual_normalization,
     volume          |-> s.volume,
     frequency_bands |-> s.frequency_bands]

\* C6 amended: the audio thread takes the settings lock once per sample, and
\* each sample is made from the one snapshot taken under that lock, whatever
\* the control thread has done to the settings since.
C6_OncePerSample ==
    /\ lock_count = Len(block_log) + (IF a_pc \in {"tick_read", "tick_synth"} THEN 1 ELSE 0)
    /\ \A k \in Entries :
           block_log[k].synthesized => block_log[k].used = LocalsOf(block_log[k].seen)

\* C6 witness: the settings changed while a sample was being synthesized,
\* that sample was made from the older snapshot, and the next sample of the
\* same block saw the change.
C6_Witness ==
    /\ Len(block_log) = 2
    /\ block_log[1].synthesized /\ block_log[2].synthesized
    /\ block_log[1].seen # block_log[2].seen
    /\ block_log[1].used = LocalsOf(block_log[1].seen)

\* C7: the audio thread does not hold the settings lock while it synthesizes:
\* not when the synthesis is about to run, and not in any step that changes
\* an RNG, a filter or the rain position.
C7_NoLockDuringSynthesis ==
    /\ [](a_pc = "tick_synth" => settings_lock # "audio")
    /\ [][generator' # generator => (settings_lock # "audio" /\ settings_lock' # "audio")]_vars

\* C7 witness: the control thread holds the lock while a synthesis is pending.
C7_Witness ==
    a_pc = "tick_synth" /\ settings_lock = "ui"

\* A callback invocation starts in this step.
CallbackStarts == a_pc = "idle" /\ (a_pc' # "idle" \/ callbacks' # callbacks)

\* C8: a callback that starts with the stop flag set fills its block with 0.0
\* and returns without touching the generator; a block that has started
\* synthesis is completed by generate_sample; the flag is never set again.
C8_StopSilencesBlocks ==
    /\ [][(CallbackStarts /\ ~running) =>
              (data' = Silence /\ generator' = generator /\ a_pc' = "idle"
               /\ lock_count' = 0 /\ block_log' = << >>)]_vars
    /\ [][~running => ~running']_vars
    /\ []((a_pc = "idle" /\ callbacks > 0) =>
              (Len(data) = DataLen /\ Len(block_log) \in {0, DataLen}))
    /\ [](a_pc # "idle" => Len(block_log) = Len(data))

\* C8 witness: with the flag set and the volume up, a callback has returned
\* a silent block without a call of generate_sample.
C8_Witness ==
    /\ ~running /\ a_pc = "idle" /\ callbacks > 0
    /\ settings.volume > 0
    /\ data = Silence /\ block_log = << >> /\ lock_count = 0

\* C9: once the control loop has been left, by the signal or by a UI quit (Q,
\* Esc, or Ctrl+C read as a key), the stop flag is set.
C9_QuitSetsFlag ==
    m_pc \in {"save", "exit"} => ~running

\* C10: a tick that finds volume == 0 returns 0.0 and changes no RNG, no
\* filter state and not the rain position.
C10_ZeroVolumeFastPath ==
    /\ [][(a_pc = "tick_read" /\ settings.volume = 0 /\ a_pc' # "tick_read") =>
              (generator' = generator /\ data' = Append(data, 0))]_vars
    /\ [](\A k \in Entries :
              block_log[k].seen.volume = 0 =>
                  (~block_log[k].synthesized /\ block_log[k].out = 0))

\* C10 witness: a block whose first slot was synthesized and whose second
\* slot was a zero-volume tick.
C10_Witness ==
    /\ Len(block_log) = 2
    /\ block_log[1].synthesized
    /\ ~block_log[2].synthesized /\ block_log[2].seen.volume = 0

\* The slots of frame f in a buffer of c interleaved channels
FrameSlots(f, c) == ((f - 1) * c + 1) .. (f * c)

\* C11: for a block of C >= 1 interleaved channels, generate_sample is called
\* once per frame and all C slots of a frame receive that one sample.
C11_MonoReplicated ==
    \A c \in ChannelCounts :
        (DataLen % c = 0 /\ a_pc = "idle" /\ Len(block_log) > 0) =>
            /\ Len(block_log) = DataLen \div c
            /\ \A f \in 1 .. (DataLen \div c) :
                   \A j, k \in FrameSlots(f, c) : data[j] = data[k]

\* The seeds a band's rng can have been constructed with
SeedsOf(i) == { EntropySeeds(e)[i] : e \in 0 .. MaxEntropy }

\* C12: in Vanilla style a band whose gain is at most 0.001 returns exactly
\* 0.0 and the call leaves that band's rng and its filter state (x1, x2, y1,
\* y2) as they were, call after call.
C12_ClosedBandUntouched ==
    [][(a_pc = "tick_synth" /\ a_pc' # "tick_synth" /\ snapshot.sound_style = "Vanilla") =>
           \A i \in BandIndex :
               snapshot.frequency_bands[i] <= 1 =>
                   /\ generator'.bands[i] = generator.bands[i]
                   /\ block_log'[Len(block_log')].contrib[i] = 0]_vars

\* C12 witness: two consecutive Vanilla samples were synthesized with one
\* band's gain at most 0.001; that band still has its seed and a filter at
\* rest, while another band has drawn from its rng.
C12_Witness ==
    /\ Len(block_log) = 2
    /\ \E i, j \in BandIndex :
           /\ \A k \in Entries :
                  /\ block_log[k].synthesized
                  /\ block_log[k].used.sound_style = "Vanilla"
                  /\ block_log[k].used.frequency_bands[i] <= 1
                  /\ block_log[k].contrib[i] = 0
                  /\ block_log[k].used.frequency_bands[j] > 1
           /\ generator.bands[i].rng \in SeedsOf(i)
           /\ generator.bands[i].filter.x1 = 0 /\ generator.bands[i].filter.y1 = 0
           /\ generator.bands[j].rng \notin SeedsOf(j)

\* The filter the stated policy gives a band: lowpass(max_freq) when the upper
\* edge is at most 60 Hz, highpass(min_freq) when the lower edge is at least
\* 16000 Hz, bandpass(midpoint, 1.5) otherwise.
PolicyFilter(band, sample_rate) ==
    IF band.max_freq <= 60 THEN lowpass(band.max_freq, sample_rate)
    ELSE IF band.min_freq >= 16000 THEN highpass(band.min_freq, sample_rate)
    ELSE bandpass((band.min_freq + band.max_freq) \div 2, 1500, sample_rate)

\* Kind, frequency and coefficients of a filter, without its running state
DesignOf(f) == << f.kind, f.freq, f.b0, f.b1, f.b2, f.a1, f.a2 >>

\* C13: for each of the 8 bands the noise filter and the rain EQ filter are
\* the one the policy names: lowpass(max_freq) exactly when max_freq <= 60,
\* highpass(min_freq) exactly when min_freq >= 16000, bandpass at the midpoint
\* with Q = 1.5 otherwise.
C13_FilterPolicy ==
    \A i \in BandIndex :
        LET policy == PolicyFilter(FREQUENCY_BANDS[i], generator.rain_player.target_sample_rate)
        IN  /\ DesignOf(generator.bands[i].filter) = DesignOf(policy)
            /\ DesignOf(generator.rain_filters[i]) = DesignOf(policy)

\* C14: no interleaving of the audio callback, the control thread and the
\* shutdown deadlocks.  The audio thread takes the settings lock only inside
\* the generator lock, which no other thread takes; whoever holds the settings
\* lock while another thread waits for it is at a point from which it releases
\* the lock without acquiring anything; and every acquisition (by
\* generate_sample, by draw_ui, by the final save) is eventually granted.
C14_NoDeadlock ==
    /\ [](settings_lock = "audio" => generator_lock = "audio")
    /\ [](generator_lock = "audio" <=> a_pc # "idle")
    /\ []((a_pc = "tick_lock" /\ settings_lock # "none") =>
              (settings_lock = "ui" /\ m_pc = "drawing"))
    /\ []((m_pc \in {"draw", "save"} /\ settings_lock # "none") =>
              (settings_lock = "audio" /\ a_pc = "tick_read"))
    /\ (a_pc = "tick_lock") ~> (a_pc = "tick_read")
    /\ (m_pc = "draw") ~> (m_pc = "drawing")
    /\ (m_pc = "save") ~> (m_pc = "exit")

\* C14 witness: the audio thread, holding the generator lock, waits for the
\* settings lock that draw_ui holds.
C14_Witness ==
    /\ a_pc = "tick_lock" /\ generator_lock = "audio"
    /\ settings_lock = "ui" /\ m_pc = "drawing"

\* The player under test, its resampling step and its loop point
Player == generator.rain_player

PlayerStep == Fdiv(Player.source_sample_rate, Player.target_sample_rate)

PlayerFadeStart == Player.len - Player.crossfade_samples

PositionInBuffer ==
    0 <= Player.resample_position /\ Player.resample_position < Player.len * Scale

PlayerLoops ==
    Player.len > Player.crossfade_samples /\ PlayerStep <= PlayerFadeStart * Scale

====
